---- MODULE Spec2Model ----
(***************************************************************************)
(* A model of parler/forms.py: the translatable model form.                *)
(*                                                                         *)
(*   - BaseTranslatableModelForm: __init__ (initial values and the active  *)
(*     language), _post_clean and save_translated_fields (the commit of    *)
(*     the cleaned translated values to the model instance);               *)
(*   - TranslatableBaseInlineFormSet._construct_form;                      *)
(*   - TranslatableModelFormMetaclass.__new__ and _get_model_form_field    *)
(*     (the assembly of a form class).                                     *)
(*                                                                         *)
(* Two specifications share the module: Spec is the life of one form       *)
(* instance (construct, clean, _post_clean), SpecAssembly is one class     *)
(* statement handled by the metaclass.                                     *)
(*                                                                         *)
(* A Python dict is a function whose DOMAIN is its set of keys.  None is   *)
(* the language code 0.  An optional object is a sequence of length 0      *)
(* (None) or 1.                                                            *)
(***************************************************************************)
EXTENDS Integers, FiniteSets, Sequences, TLC

\* ------------------------------------------------------------- bounds
\* Language codes are 1..NumLangs.
NumLangs == 2
\* Cleaned and explicitly supplied initial values are numbered 1..MaxValue.
MaxValue == 1

\* language_code = None
None == 0

Langs == 1 .. NumLangs
LangOrNone == {None} \cup Langs

\* ------------------------------------------- the translatable model
\* The model under edit has two shadow (translation) models with disjoint
\* translated fields.
ShadowModels == {"M1", "M2"}

\* meta.get_translated_fields()
get_translated_fields(meta) ==
    IF meta = "M1" THEN {"title", "slug"} ELSE {"body"}

\* model._parler_meta.get_all_fields(), in the order of the shadow models
get_all_fields == <<"title", "slug", "body">>

AllFields == {get_all_fields[i] : i \in 1 .. Len(get_all_fields)}

MetaOf(field) == CHOOSE meta \in ShadowModels : field \in get_translated_fields(meta)

\* The values a translated attribute can hold.
DbValue(lang, field) == <<"db", lang, field>>
CleanValue(k) == <<"clean", k>>
InitialValue(k) == <<"initial", k>>
BlankValue == <<"blank">>

\* A shadow object as it is stored for language `lang` before the form runs.
StoredShadow(meta, lang) == [f \in get_translated_fields(meta) |-> DbValue(lang, f)]

\* A model instance: its current language and, per shadow model, the shadow
\* objects it owns (a dict from language code to shadow object).
ExistingInstances ==
    { [cur |-> c,
       trans |-> [m \in ShadowModels |-> [l \in D[m] |-> StoredShadow(m, l)]]] :
        c \in Langs, D \in [ShadowModels -> SUBSET Langs] }

\* opts.model(): a fresh instance, in the process's language, with no shadow
\* object yet.
NewInstance(default) ==
    [cur |-> default, trans |-> [m \in ShadowModels |-> [l \in {} |-> BlankValue]]]

\* instance.get_current_language()
get_current_language(inst) == inst.cur

\* instance.set_current_language(language_code)
set_current_language(inst, language_code) == [inst EXCEPT !.cur = language_code]

\* Whether instance._get_translated_model(meta=meta) finds a shadow object
\* (it raises TranslationDoesNotExist otherwise): the one of the instance's
\* current language, never created here.
HasTranslation(inst, meta) == inst.cur \in DOMAIN inst.trans[meta]

_get_translated_model(inst, meta) == inst.trans[meta][inst.cur]

\* setattr(instance, field, value) through the TranslatedAttribute
\* descriptor: writes the shadow object of the current language, creating
\* it (blank) when the instance has none.
SetAttr(inst, field, value) ==
    LET m == MetaOf(field)
        old == IF HasTranslation(inst, m)
               THEN _get_translated_model(inst, m)
               ELSE [f \in get_translated_fields(m) |-> BlankValue]
    IN  [inst EXCEPT !.trans[m] =
            (inst.cur :> [old EXCEPT ![field] = value]) @@ inst.trans[m]]

\* ------------------------------------------------ the form instance
VARIABLES
    pc,                   \* "new", "constructed", "cleaned", "committed"; "class", "assembled"
    class_language_code,  \* language_code of the form class (set by the admin, or None)
    default_language,     \* get_language()
    form_fields,          \* the names of self.fields
    kwargs,               \* the keyword arguments of the constructor
    formset,              \* <<>>, or <<language_code of the formset>> that built the form
    language_code,        \* self.language_code
    initial,              \* self.initial
    form_instance,        \* self.instance
    loaded_language,      \* the language whose shadow objects __init__ read, if any
    cleaned_data,         \* self.cleaned_data
    validated             \* <<>>, or <<the instance the base _post_clean validated>>

formVars == <<class_language_code, default_language, form_fields, kwargs, formset,
              language_code, initial, form_instance, loaded_language,
              cleaned_data, validated>>

EmptyDict == [f \in {} |-> BlankValue]

\* The dicts with keys among `keys` and values among `values`.
Dicts(keys, values) == UNION {[D -> values] : D \in SUBSET keys}

\* The keyword arguments a caller passes: instance (or none), the explicit
\* _current_language (or None), and initial.
KwargsSet ==
    [instance : {<<>>} \cup {<<i>> : i \in ExistingInstances},
     current_language : LangOrNone,
     initial : Dicts({"title"}, {InitialValue(k) : k \in 1 .. MaxValue})]

\* The keyword arguments the formset passes to a child form: the row's
\* instance, if the row has one.
FormsetKwargsSet ==
    {kw \in KwargsSet : kw.current_language = None /\ kw.initial = EmptyDict}

\* A slip of lines 90-95: the explicit argument is looked at first and the
\* class's language_code is a last resort.
ResolveLanguage_ExplicitFirst(class_lc, instance, current_language, default) ==
    IF current_language # None
    THEN current_language
    ELSE IF instance # <<>>
         THEN get_current_language(instance[1])
         ELSE IF class_lc # None THEN class_lc ELSE default

\* Lines 90-95: the language of the form.
ResolveLanguage(class_lc, instance, current_language, default) ==
    IF class_lc # None
    THEN class_lc
    ELSE IF instance # <<>>
         THEN get_current_language(instance[1])
         ELSE IF current_language # None THEN current_language ELSE default

\* A slip of line 87: initial[field] = ... in place of setdefault.
LoadInitial_Overwrite(supplied, instance) ==
    IF instance = <<>>
    THEN supplied
    ELSE LET inst == instance[1]
             found == {f \in AllFields : HasTranslation(inst, MetaOf(f))}
         IN  [f \in found |-> _get_translated_model(inst, MetaOf(f))[f]] @@ supplied

\* Lines 75-87: the initial values of the translated fields.
LoadInitial(supplied, instance) ==
    IF instance = <<>>
    THEN supplied
    ELSE LET inst == instance[1]
             found == {f \in AllFields : HasTranslation(inst, MetaOf(f))}
         IN  supplied @@ [f \in found |-> _get_translated_model(inst, MetaOf(f))[f]]

\* Lines 118-121
_translated_fields(names) ==
    SelectSeq(get_all_fields, LAMBDA f : f \in names)

\* A slip of line 115: break in place of continue.
RECURSIVE save_translated_fields_Break(_, _, _)
save_translated_fields_Break(inst, cleaned, names) ==
    IF names = <<>>
    THEN inst
    ELSE IF Head(names) \notin DOMAIN cleaned
         THEN inst
         ELSE save_translated_fields_Break(
                SetAttr(inst, Head(names), cleaned[Head(names)]), cleaned, Tail(names))

\* Lines 106-116
RECURSIVE save_translated_fields(_, _, _)
save_translated_fields(inst, cleaned, names) ==
    IF names = <<>>
    THEN inst
    ELSE IF Head(names) \notin DOMAIN cleaned
         THEN save_translated_fields(inst, cleaned, Tail(names))
         ELSE save_translated_fields(SetAttr(inst, Head(names), cleaned[Head(names)]),
                                     cleaned, Tail(names))

\* A slip of lines 100-101: the language is set after the values are copied.
CommitTranslated_LanguageLast(inst, lc, cleaned, names) ==
    set_current_language(
        save_translated_fields(inst, cleaned, _translated_fields(names)), lc)

\* Lines 100-101: what _post_clean does before it calls the base class.
CommitTranslated(inst, lc, cleaned, names) ==
    save_translated_fields(set_current_language(inst, lc), cleaned,
                           _translated_fields(names))

\* Line 259: the language of a child form the formset returns.
FormsetLanguage(resolved, formset_language_code) == formset_language_code

\* ------------------------------------------------ the class assembly
\* The assembly decides, per translated field name, whether the class gets
\* a form field, None, or nothing.  The options forwarded to the field that
\* is built (Meta.widgets, the kwargs of a placeholder of the class or of an
\* ancestor, lines 166 and 185-194) change the field's look and not whether
\* it is built, and are left out.
VARIABLES
    form_meta,            \* <<>>, or <<the _meta options found on the bases>>
    form_base_fields,     \* the names of the base_fields found on the bases
    own_meta,             \* <<>>, or <<the Meta class the class statement declares>>
    attrs,                \* the class statement's attributes under the translated names
    editable,             \* field.editable of each translated model field
    formfield_callback,   \* attrs.get('formfield_callback')
    assembled             \* <<>>, or <<the outcome of __new__>>

asmVars == <<form_meta, form_base_fields, own_meta, attrs, editable,
             formfield_callback, assembled>>

vars == <<pc, formVars, asmVars>>

\* A `fields` or `exclude` directive: not an attribute of the Meta class
\* ("undeclared"), None, '__all__', or a list of names.
Directive(kind, names) == [kind |-> kind, names |-> names]
Undeclared == Directive("undeclared", {})
Unset == Directive("none", {})
AllDirective == Directive("all", {})
ListOf(names) == Directive("list", names)

\* What an attribute of the class statement is: missing, a TranslatedField
\* placeholder, or a form field declared by hand; after the assembly also a
\* form field the resolver built, or None.
AttrKinds == {"absent", "placeholder", "declared"}

\* What a formfield_callback can be: not given, not callable, or a callable
\* that returns a form field or returns None.
CallbackKinds == {"absent", "not_callable", "returns_field", "returns_none"}

\* A slip of lines 222-229: the callback is checked before field.editable.
_get_model_form_field_CheckFirst(is_editable, callback) ==
    IF callback = "not_callable"
    THEN "raise"
    ELSE IF ~is_editable
         THEN "omit"
         ELSE IF callback \in {"absent", "returns_field"} THEN "field" ELSE "omit"

\* A slip of lines 222-223: field.editable is not looked at.
_get_model_form_field_IgnoreEditable(is_editable, callback) ==
    IF callback = "absent"
    THEN "field"
    ELSE IF callback = "not_callable"
         THEN "raise"
         ELSE IF callback = "returns_field" THEN "field" ELSE "omit"

\* Lines 216-233.  "omit" is the None the caller gets, "raise" the
\* TypeError.
_get_model_form_field(is_editable, callback) ==
    IF ~is_editable
    THEN "omit"
    ELSE IF callback = "absent"
         THEN "field"
         ELSE IF callback = "not_callable"
              THEN "raise"
              ELSE IF callback = "returns_field" THEN "field" ELSE "omit"

\* getattr(form_new_meta, name, form_meta.<name>), lines 151, 164-165: the
\* class's own Meta wins where it has the attribute.
GetMetaDirective(own, inherited) ==
    IF own.kind # "undeclared" THEN own ELSE inherited

\* Lines 164, 169-170: None when every name passes, else <<the list>>.
EffectiveFields(own, inherited) ==
    LET d == GetMetaDirective(own, inherited)
    IN  IF d.kind = "list" THEN <<d.names>> ELSE <<>>

\* Line 165: `... or ()`
EffectiveExclude(own, inherited) ==
    LET d == GetMetaDirective(own, inherited)
    IN  IF d.kind = "list" THEN d.names ELSE {}

\* Lines 151-152
FormModel(own, inherited) ==
    IF own # <<>> THEN own[1].model ELSE inherited[1].model

OwnDirective(own, name) ==
    IF own = <<>> THEN Undeclared ELSE own[1][name]

\* A slip of lines 180-183: the exclude test is left out.
AssembleField_NoExclude(st, f, placeholder_fields, base_fields, flds, exclude, is_editable, callback) ==
    LET formfield == _get_model_form_field(is_editable, callback)
        called == IF is_editable /\ callback # "not_callable"
                  THEN st.built \cup {f} ELSE st.built
    IN  IF st.raised
        THEN st
        ELSE IF f \in placeholder_fields
             THEN IF formfield = "raise"
                  THEN [st EXCEPT !.raised = TRUE]
                  ELSE [st EXCEPT !.attrs[f] = formfield, !.built = called]
             ELSE IF /\ f \notin base_fields
                     /\ (flds = <<>> \/ f \in flds[1])
                     /\ st.attrs[f] = "absent"
                  THEN IF formfield = "raise"
                       THEN [st EXCEPT !.raised = TRUE]
                       ELSE IF formfield = "field"
                            THEN [st EXCEPT !.attrs[f] = "field", !.built = called]
                            ELSE [st EXCEPT !.built = called]
                  ELSE st

\* A slip of lines 174-183: a placeholder is resolved only if its name
\* passes the fields and exclude tests.
AssembleField_FilterPlaceholder(st, f, placeholder_fields, base_fields, flds, exclude, is_editable, callback) ==
    LET formfield == _get_model_form_field(is_editable, callback)
        called == IF is_editable /\ callback # "not_callable"
                  THEN st.built \cup {f} ELSE st.built
        passes == (flds = <<>> \/ f \in flds[1]) /\ f \notin exclude
    IN  IF st.raised
        THEN st
        ELSE IF f \in placeholder_fields /\ passes
             THEN IF formfield = "raise"
                  THEN [st EXCEPT !.raised = TRUE]
                  ELSE [st EXCEPT !.attrs[f] = formfield, !.built = called]
             ELSE IF /\ f \notin base_fields
                     /\ passes
                     /\ st.attrs[f] = "absent"
                  THEN IF formfield = "raise"
                       THEN [st EXCEPT !.raised = TRUE]
                       ELSE IF formfield = "field"
                            THEN [st EXCEPT !.attrs[f] = "field", !.built = called]
                            ELSE [st EXCEPT !.built = called]
                  ELSE st

\* Lines 172-199: one turn of the loop over the translated field names.
\* st is the assembly so far: the attributes, whether TypeError was raised,
\* and the names whose form field construction was called.
AssembleField(st, f, placeholder_fields, base_fields, flds, exclude, is_editable, callback) ==
    LET formfield == _get_model_form_field(is_editable, callback)
        called == IF is_editable /\ callback # "not_callable"
                  THEN st.built \cup {f} ELSE st.built
    IN  IF st.raised
        THEN st
        ELSE IF f \in placeholder_fields
             THEN IF formfield = "raise"
                  THEN [st EXCEPT !.raised = TRUE]
                  ELSE [st EXCEPT !.attrs[f] = formfield, !.built = called]
             ELSE IF /\ f \notin base_fields
                     /\ (flds = <<>> \/ f \in flds[1])
                     /\ f \notin exclude
                     /\ st.attrs[f] = "absent"
                  THEN IF formfield = "raise"
                       THEN [st EXCEPT !.raised = TRUE]
                       ELSE IF formfield = "field"
                            THEN [st EXCEPT !.attrs[f] = "field", !.built = called]
                            ELSE [st EXCEPT !.built = called]
                  ELSE st

RECURSIVE AssembleLoop(_, _, _, _, _, _, _, _)
AssembleLoop(st, names, placeholder_fields, base_fields, flds, exclude, edit, callback) ==
    IF names = <<>>
    THEN st
    ELSE AssembleLoop(
            AssembleField(st, Head(names), placeholder_fields, base_fields, flds,
                          exclude, edit[Head(names)], callback),
            Tail(names), placeholder_fields, base_fields, flds, exclude, edit, callback)

\* Line 202, the base metaclass (django 1.7): the form fields of the class
\* are the fields of the bases, less the names the class sets to None, and
\* the form fields among the class's attributes.
DjangoBaseFields(base_fields, final_attrs) ==
    (base_fields \ {f \in AllFields : final_attrs[f] = "omit"})
        \cup {f \in AllFields : final_attrs[f] \in {"field", "declared"}}

\* Lines 140-202: TranslatableModelFormMetaclass.__new__
MetaclassNew(meta, base_fields, own, att, edit, callback) ==
    LET start == [attrs |-> att, raised |-> FALSE, built |-> {}]
        done ==
            IF meta = <<>>
            THEN start
            ELSE IF ~FormModel(own, meta)
                 THEN start
                 ELSE AssembleLoop(
                        start, get_all_fields,
                        {f \in AllFields : att[f] = "placeholder"},
                        base_fields,
                        EffectiveFields(OwnDirective(own, "fields"), meta[1].fields),
                        EffectiveExclude(OwnDirective(own, "exclude"), meta[1].exclude),
                        edit, callback)
    IN  [attrs |-> done.attrs,
         raised |-> done.raised,
         built |-> done.built,
         base_fields |-> IF done.raised THEN {}
                         ELSE DjangoBaseFields(base_fields, done.attrs)]

\* ------------------------------------------------------ specifications
NoKwargs == [instance |-> <<>>, current_language |-> None, initial |-> EmptyDict]

FormIdle ==
    /\ class_language_code = None
    /\ default_language = 1
    /\ form_fields = AllFields
    /\ kwargs = NoKwargs
    /\ formset = <<>>
    /\ language_code = None
    /\ initial = EmptyDict
    /\ form_instance = NewInstance(1)
    /\ loaded_language = None
    /\ cleaned_data = EmptyDict
    /\ validated = <<>>

AssemblyIdle ==
    /\ form_meta = <<>>
    /\ form_base_fields = {}
    /\ own_meta = <<>>
    /\ attrs = [f \in AllFields |-> "absent"]
    /\ editable = [f \in AllFields |-> TRUE]
    /\ formfield_callback = "absent"
    /\ assembled = <<>>

Init ==
    /\ pc = "new"
    /\ class_language_code \in LangOrNone
    /\ default_language \in Langs
    /\ form_fields \in {AllFields, AllFields \ {"slug"}}
    /\ kwargs = NoKwargs
    /\ formset = <<>>
    /\ language_code = class_language_code
    /\ initial = EmptyDict
    /\ form_instance = NewInstance(default_language)
    /\ loaded_language = None
    /\ cleaned_data = EmptyDict
    /\ validated = <<>>
    /\ AssemblyIdle

\* BaseTranslatableModelForm.__init__(**kw), but for self.language_code
Construct(kw) ==
    /\ kwargs' = kw
    /\ form_instance' = IF kw.instance = <<>>
                        THEN NewInstance(default_language)
                        ELSE kw.instance[1]
    /\ initial' = LoadInitial(kw.initial, kw.instance)
    /\ loaded_language' = IF kw.instance = <<>>
                          THEN None
                          ELSE get_current_language(kw.instance[1])

\* A form built by calling the form class.
ConstructForm ==
    /\ pc = "new"
    /\ \E kw \in KwargsSet :
        /\ Construct(kw)
        /\ language_code' = ResolveLanguage(class_language_code, kw.instance,
                                            kw.current_language, default_language)
    /\ pc' = "constructed"
    /\ UNCHANGED <<class_language_code, default_language, form_fields, formset,
                   cleaned_data, validated>>
    /\ UNCHANGED asmVars

\* A form built by TranslatableBaseInlineFormSet._construct_form, lines
\* 257-260.
FormsetConstructForm ==
    /\ pc = "new"
    /\ \E kw \in FormsetKwargsSet, flc \in LangOrNone :
        /\ Construct(kw)
        /\ formset' = <<flc>>
        /\ language_code' =
             FormsetLanguage(ResolveLanguage(class_language_code, kw.instance,
                                             kw.current_language, default_language),
                             flc)
    /\ pc' = "constructed"
    /\ UNCHANGED <<class_language_code, default_language, form_fields,
                   cleaned_data, validated>>
    /\ UNCHANGED asmVars

\* The clean of the fields (django): every field of the form either
\* validates, and has its value in cleaned_data, or fails and has none.
CleanFields ==
    /\ pc = "constructed"
    /\ cleaned_data' \in Dicts(form_fields, {CleanValue(k) : k \in 1 .. MaxValue})
    /\ pc' = "cleaned"
    /\ UNCHANGED <<class_language_code, default_language, form_fields, kwargs, formset,
                   language_code, initial, form_instance, loaded_language, validated>>
    /\ UNCHANGED asmVars

\* BaseTranslatableModelForm._post_clean(), lines 97-104: the commit, then
\* the base class's _post_clean, which validates the instance it is given
\* and writes no translated attribute.
PostClean ==
    /\ pc = "cleaned"
    /\ form_instance' = CommitTranslated(form_instance, language_code, cleaned_data,
                                         form_fields)
    /\ validated' = <<form_instance'>>
    /\ pc' = "committed"
    /\ UNCHANGED <<class_language_code, default_language, form_fields, kwargs, formset,
                   language_code, initial, loaded_language, cleaned_data>>
    /\ UNCHANGED asmVars

Next == ConstructForm \/ FormsetConstructForm \/ CleanFields \/ PostClean

Spec == Init /\ [][Next]_vars

\* The class statements the assembly is checked on.
InheritedMetas ==
    {<<>>} \cup
    { <<[model |-> m, fields |-> fl, exclude |-> ex]>> :
        m \in BOOLEAN,
        fl \in {Unset, ListOf({"slug", "body"})},
        ex \in {Unset, ListOf({"title"})} }

OwnMetas ==
    {<<>>} \cup
    { <<[model |-> TRUE, fields |-> fl, exclude |-> ex]>> :
        fl \in {Undeclared, AllDirective, ListOf({"title", "body"})},
        ex \in {Undeclared, ListOf({"body"})} }
    \cup {<<[model |-> FALSE, fields |-> Undeclared, exclude |-> Undeclared]>>}

InitAssembly ==
    /\ pc = "class"
    /\ FormIdle
    /\ form_meta \in InheritedMetas
    /\ own_meta \in OwnMetas
    /\ form_base_fields \in {{}, {"slug"}, {"body"}}
    /\ attrs \in [AllFields -> AttrKinds]
    /\ editable \in [AllFields -> BOOLEAN]
    /\ formfield_callback \in CallbackKinds
    /\ assembled = <<>>

\* The class statement runs: TranslatableModelFormMetaclass.__new__
AssembleClass ==
    /\ pc = "class"
    /\ assembled' = <<MetaclassNew(form_meta, form_base_fields, own_meta, attrs,
                                   editable, formfield_callback)>>
    /\ pc' = "assembled"
    /\ UNCHANGED <<form_meta, form_base_fields, own_meta, attrs, editable,
                   formfield_callback>>
    /\ UNCHANGED formVars

NextAssembly == AssembleClass

SpecAssembly == InitAssembly /\ [][NextAssembly]_vars

\* ------------------------------------------------------------- claims
Constructed == pc \in {"constructed", "cleaned", "committed"}

HasInstance == kwargs.instance # <<>>

\* The instance as it was when the form was constructed.
Original ==
    IF HasInstance THEN kwargs.instance[1] ELSE NewInstance(default_language)

\* The value of a translated attribute of `inst` in its current language.
Attr(inst, f) == _get_translated_model(inst, MetaOf(f))[f]

\* C1, as stated: the language of a constructed form is the explicit
\* _current_language if one is passed, else the current language of the
\* instance if one is edited, else get_language(); whatever the class's
\* language_code is.
C1_ExplicitInstanceDefault ==
    (Constructed /\ formset = <<>>) =>
        language_code =
            IF kwargs.current_language # None
            THEN kwargs.current_language
            ELSE IF HasInstance THEN kwargs.instance[1].cur ELSE default_language

\* C1, amended: the class's language_code wins when it is set; else the
\* current language of the instance passed as `instance`; else the explicit
\* _current_language; else get_language().
C1_ClassInstanceExplicitDefault ==
    (Constructed /\ formset = <<>>) =>
        /\ class_language_code # None => language_code = class_language_code
        /\ (class_language_code = None /\ HasInstance) =>
                language_code = kwargs.instance[1].cur
        /\ (class_language_code = None /\ ~HasInstance
                /\ kwargs.current_language # None) =>
                language_code = kwargs.current_language
        /\ (class_language_code = None /\ ~HasInstance
                /\ kwargs.current_language = None) =>
                language_code = default_language

\* A form for an instance, built with an explicit language that is not the
\* instance's: the instance's language is the form's.
C1_Witness ==
    /\ pc = "constructed"
    /\ formset = <<>>
    /\ class_language_code = None
    /\ HasInstance
    /\ kwargs.current_language \notin {None, kwargs.instance[1].cur}
    /\ language_code = kwargs.instance[1].cur

\* C2: the language whose shadow objects __init__ read for the initial
\* values is the language _post_clean sets on the instance and writes to
\* (stated of the forms built by calling the form class).
C2_OneLanguage ==
    (pc = "committed" /\ formset = <<>> /\ loaded_language # None) =>
        /\ loaded_language = language_code
        /\ form_instance.cur = loaded_language

\* C3: after _post_clean on a form whose translated fields all validated,
\* the instance's language is the form's language_code and every translated
\* field of the form has its cleaned value on the instance; the language was
\* set before the values were copied (no shadow object of another language
\* was written or created), and the base class's _post_clean ran on the
\* instance so committed.
C3_CommitPostcondition ==
    (pc = "committed" /\ form_fields \subseteq DOMAIN cleaned_data) =>
        /\ form_instance.cur = language_code
        /\ \A f \in form_fields :
            /\ HasTranslation(form_instance, MetaOf(f))
            /\ Attr(form_instance, f) = cleaned_data[f]
        /\ \A m \in ShadowModels :
            /\ DOMAIN form_instance.trans[m] \subseteq
                    DOMAIN Original.trans[m] \cup {language_code}
            /\ \A l \in DOMAIN Original.trans[m] \ {language_code} :
                    /\ l \in DOMAIN form_instance.trans[m]
                    /\ form_instance.trans[m][l] = Original.trans[m][l]
        /\ validated = <<form_instance>>

\* A commit in a language that was not the instance's, the instance having
\* shadow objects in its own language.
C3_Witness ==
    /\ pc = "committed"
    /\ form_fields = AllFields
    /\ form_fields \subseteq DOMAIN cleaned_data
    /\ HasInstance
    /\ language_code \notin {None, Original.cur}
    /\ \A m \in ShadowModels : Original.cur \in DOMAIN Original.trans[m]
    /\ \A f \in AllFields : Attr(form_instance, f) = cleaned_data[f]

\* C4: the commit leaves alone every translated attribute that has no
\* cleaned value (its shadow object keeps the value it had; one created by
\* the commit holds it blank), raises nothing, and copies every translated
\* field of the form that has a cleaned value.
C4_FailedFieldSkipped ==
    [][(pc = "cleaned" /\ pc' = "committed") =>
        LET before == set_current_language(form_instance, language_code)
        IN  \A f \in AllFields :
                IF f \in form_fields /\ f \in DOMAIN cleaned_data
                THEN /\ HasTranslation(form_instance', MetaOf(f))
                     /\ Attr(form_instance', f) = cleaned_data[f]
                ELSE IF HasTranslation(before, MetaOf(f))
                     THEN /\ HasTranslation(form_instance', MetaOf(f))
                          /\ Attr(form_instance', f) = Attr(before, f)
                     ELSE HasTranslation(form_instance', MetaOf(f)) =>
                            Attr(form_instance', f) = BlankValue
    ]_vars

\* title failed its validation, slug and body did not: title keeps the
\* stored value, slug (of the same shadow object) and body are copied.
C4_Witness ==
    /\ pc = "committed"
    /\ form_fields = AllFields
    /\ DOMAIN cleaned_data = {"slug", "body"}
    /\ HasInstance
    /\ language_code \in DOMAIN Original.trans["M1"]
    /\ Attr(form_instance, "title") = DbValue(language_code, "title")
    /\ Attr(form_instance, "slug") = cleaned_data["slug"]
    /\ Attr(form_instance, "body") = cleaned_data["body"]

\* C5: a form constructed for an instance has, for each shadow model with a
\* shadow object in the language read, every field of it in initial: the
\* supplied initial value if one was passed, the shadow object's value
\* otherwise; for a shadow model with no such shadow object the
\* construction goes on and sets no initial value.
C5_InitialLoaded ==
    (Constructed /\ HasInstance) =>
        \A m \in ShadowModels : \A f \in get_translated_fields(m) :
            IF f \in DOMAIN kwargs.initial
            THEN f \in DOMAIN initial /\ initial[f] = kwargs.initial[f]
            ELSE IF kwargs.instance[1].cur \in DOMAIN kwargs.instance[1].trans[m]
                 THEN /\ f \in DOMAIN initial
                      /\ initial[f] = DbValue(kwargs.instance[1].cur, f)
                 ELSE f \notin DOMAIN initial

\* An instance with the first shadow object and without the second, and a
\* supplied initial title.
C5_Witness ==
    /\ pc = "constructed"
    /\ HasInstance
    /\ "title" \in DOMAIN kwargs.initial
    /\ Original.cur \in DOMAIN Original.trans["M1"]
    /\ Original.cur \notin DOMAIN Original.trans["M2"]
    /\ initial["title"] = kwargs.initial["title"]
    /\ initial["slug"] = DbValue(Original.cur, "slug")
    /\ "body" \notin DOMAIN initial

\* C10: a constructed form's language_code is never None, up to and with
\* the commit, so _post_clean never sets the instance's language to None;
\* child forms of the formset included.
C10_LanguageStaysSet ==
    Constructed =>
        /\ language_code # None
        /\ pc = "committed" => form_instance.cur # None

\* The outcome of the assembly.
Asm == assembled[1]

\* The class has bases with _meta and a model.
SubclassWithModel ==
    /\ form_meta # <<>>
    /\ IF own_meta # <<>> THEN own_meta[1].model ELSE form_meta[1].model

\* The effective directives: the class's own Meta where it declares them,
\* the inherited options otherwise.
ExcludeInEffect ==
    IF own_meta # <<>> /\ own_meta[1].exclude.kind # "undeclared"
    THEN own_meta[1].exclude ELSE form_meta[1].exclude

FieldsInEffect ==
    IF own_meta # <<>> /\ own_meta[1].fields.kind # "undeclared"
    THEN own_meta[1].fields ELSE form_meta[1].fields

Excluded(f) == ExcludeInEffect.kind = "list" /\ f \in ExcludeInEffect.names

MissingFromFields(f) == FieldsInEffect.kind = "list" /\ f \notin FieldsInEffect.names

\* The model field is editable and the callback, if any, returns a field.
Resolves(f) == editable[f] /\ formfield_callback \in {"absent", "returns_field"}

\* The name passes the tests of lines 180-183.
PassesFilter(f) ==
    /\ attrs[f] = "absent"
    /\ f \notin form_base_fields
    /\ ~Excluded(f)
    /\ ~MissingFromFields(f)

\* C6: a translated name that is excluded, or missing from an inclusive
\* fields list, and is no placeholder of the class, is not synthesized (no
\* form field is built for it and the attribute stays what it was); an
\* attribute declared by hand under a translated name is not replaced.
C6_FilteredNeverSynthesized ==
    pc = "assembled" =>
        /\ form_meta = <<>> => Asm.attrs = attrs
        /\ form_meta # <<>> =>
            \A f \in AllFields :
                /\ (attrs[f] # "placeholder" /\ (Excluded(f) \/ MissingFromFields(f))) =>
                        (Asm.attrs[f] = attrs[f] /\ f \notin Asm.built)
                /\ attrs[f] = "declared" =>
                        (Asm.attrs[f] = "declared" /\ f \notin Asm.built)

\* An excluded editable name stays out while another name is synthesized
\* and a third keeps its declared field.
C6_Witness ==
    /\ pc = "assembled"
    /\ SubclassWithModel
    /\ ~Asm.raised
    /\ \E f, g, h \in AllFields :
        /\ attrs[f] = "absent" /\ editable[f] /\ f \notin form_base_fields
        /\ Excluded(f) /\ ~MissingFromFields(f)
        /\ Asm.attrs[f] = "absent"
        /\ attrs[g] = "absent" /\ Asm.attrs[g] = "field"
        /\ attrs[h] = "declared" /\ editable[h] /\ ~Excluded(h) /\ ~MissingFromFields(h)
        /\ Asm.attrs[h] = "declared"

\* C7, as stated: a placeholder declared for a translated field always
\* yields a resolved form field for it.
C7_PlaceholderAlwaysResolved ==
    (pc = "assembled" /\ SubclassWithModel) =>
        \A f \in AllFields : attrs[f] = "placeholder" =>
            /\ ~Asm.raised
            /\ Asm.attrs[f] = "field"
            /\ f \in Asm.base_fields

\* C7, amended: when the assembly completes the placeholder is gone; it is
\* a resolved form field, whatever fields and exclude say, if the model
\* field is editable and the callback (if any) returns a field, and None
\* (no form field) otherwise.
C7_PlaceholderResolvedIfEditable ==
    (pc = "assembled" /\ SubclassWithModel /\ ~Asm.raised) =>
        \A f \in AllFields : attrs[f] = "placeholder" =>
            IF Resolves(f)
            THEN Asm.attrs[f] = "field" /\ f \in Asm.base_fields
            ELSE Asm.attrs[f] = "omit" /\ f \notin Asm.base_fields

\* An excluded placeholder and one missing from the fields list, resolved.
C7_Witness ==
    /\ pc = "assembled"
    /\ SubclassWithModel
    /\ ~Asm.raised
    /\ \E f, g \in AllFields :
        /\ attrs[f] = "placeholder" /\ Excluded(f) /\ Asm.attrs[f] = "field"
        /\ attrs[g] = "placeholder" /\ MissingFromFields(g) /\ Asm.attrs[g] = "field"

\* C8, as stated: with a formfield_callback that is not callable the
\* assembly of a form class for a model always fails with TypeError, before
\* any form field is built.
C8_NotCallableAlwaysRaises ==
    (pc = "assembled" /\ SubclassWithModel /\ formfield_callback = "not_callable") =>
        (Asm.raised /\ Asm.built = {})

\* C8, amended: TypeError is raised exactly when the callback is not
\* callable and the loop comes to an editable translated field to build (a
\* placeholder of the class, or a name that passes the tests); it is raised
\* before any form field is built.
C8_NotCallableRaisesAtFirstBuild ==
    pc = "assembled" =>
        /\ Asm.raised <=>
            /\ formfield_callback = "not_callable"
            /\ SubclassWithModel
            /\ \E f \in AllFields :
                editable[f] /\ (attrs[f] = "placeholder" \/ PassesFilter(f))
        /\ Asm.raised => Asm.built = {}

\* TypeError raised at the second field, after a placeholder that is not
\* editable was passed over.
C8_Witness ==
    /\ pc = "assembled"
    /\ Asm.raised
    /\ attrs["title"] = "placeholder"
    /\ ~editable["title"]
    /\ Asm.attrs["title"] = "omit"
    /\ editable["slug"]

\* The form fields declared before the translated ones are added: those of
\* the bases and those the class declares by hand.
Declared == form_base_fields \cup {f \in AllFields : attrs[f] = "declared"}

\* C9, as stated: the field set of the assembled class is the declared
\* fields united with the translated fields that are not excluded and not
\* already present.
C9_FieldSetAsStated ==
    (pc = "assembled" /\ SubclassWithModel /\ ~Asm.raised) =>
        Asm.base_fields =
            Declared \cup {f \in AllFields : ~Excluded(f) /\ f \notin Declared}

\* C9, amended: the field set is the declared fields (less a name the class
\* redeclares by a placeholder that resolves to no field) united with the
\* translated fields that resolve to a form field and are either a
\* placeholder of the class or not excluded, not missing from an inclusive
\* fields list and not already present; each name once.
C9_FieldSetOfResolved ==
    (pc = "assembled" /\ SubclassWithModel /\ ~Asm.raised) =>
        /\ Asm.base_fields =
            (Declared \ {f \in AllFields : attrs[f] = "placeholder" /\ ~Resolves(f)})
            \cup {f \in AllFields :
                    Resolves(f) /\ (attrs[f] = "placeholder" \/ PassesFilter(f))}
        /\ \A f \in Asm.base_fields :
            f \in form_base_fields \/ Asm.attrs[f] \in {"field", "declared"}

\* Both shadow models contribute: a field that is not editable and not
\* excluded stays out, an excluded placeholder is in.
C9_Witness ==
    /\ pc = "assembled"
    /\ SubclassWithModel
    /\ ~Asm.raised
    /\ form_base_fields = {"slug"}
    /\ attrs["title"] = "absent" /\ ~editable["title"] /\ ~Excluded("title")
    /\ attrs["body"] = "placeholder" /\ editable["body"] /\ Excluded("body")
    /\ Asm.base_fields = {"slug", "body"}
====
